---- MODULE Spec2Model ----
(***************************************************************************)
(* A model of libeyelink (src/eyelink_calibrate/libeyelink.py): the        *)
(* session object that drives an EyeLink tracker through pylink.           *)
(*                                                                         *)
(* The session is single-threaded.  Operations that loop on device input   *)
(* (fix_triggered_drift_correction, start_recording, wait_for_event) are   *)
(* modelled one loop iteration per step, with pc holding the position;     *)
(* every other operation is one step.  An exception leaves the session     *)
(* object as the code left it and returns control to the caller, who may   *)
(* call again.                                                             *)
(*                                                                         *)
(* calls, avail, newest, polls, key, xy, lx, ly, result, pos, max_dev,     *)
(* dev, i, event, d, feed, consumed and arg are the locals and the device  *)
(* traffic of the current (or last finished) call; they are reset when the *)
(* next call starts.                                                       *)
(***************************************************************************)
EXTENDS Integers, Sequences, FiniteSets

VARIABLES
    recording,        \* self.recording
    eye_used,         \* self.eye_used: None or <<v>>
    cal_beep,         \* self.cal_beep
    cal_target_size,  \* self.cal_target_size
    data_file,        \* self.data_file
    eyelink,          \* the module global _eyelink: None or <<"EyeLink">>
    pc,               \* "idle", "ftdc", "start", "wait", "closed", "none"
    op,               \* name of the current / last operation
    ret,              \* outcome of the last finished operation
    calls,            \* device (and keyboard) calls made by the operation
    avail,            \* answer of eyeAvailable() in this operation, or None
    newest,           \* answer of the last getNewestSample() in this operation
    min_samples,      \* fix_triggered_drift_correction: parameter
    reset_threshold,  \* fix_triggered_drift_correction: parameter
    lx, ly,           \* fix_triggered_drift_correction: accepted buffer
    key,              \* fix_triggered_drift_correction: last get_key()[0]
    xy,               \* fix_triggered_drift_correction: (x, y) of this iteration
    polls,            \* fix_triggered_drift_correction: iterations begun
    result,           \* fix_triggered_drift_correction: result of this iteration
    pos,              \* fix_triggered_drift_correction: target position
    max_dev,          \* fix_triggered_drift_correction: parameter
    dev,              \* fix_triggered_drift_correction: d of this iteration
    drift_error,      \* drift_correction: error, what doDriftCorrect() returned
    i,                \* start_recording: retry counter
    event,            \* wait_for_event: requested kind
    d,                \* wait_for_event: last getNextData()
    feed,             \* events the device still has to deliver
    consumed,         \* events fetched by getNextData() in this call
    source,           \* the sample source attached to the device
    arg,              \* __init__: the data_file argument
    ticks,            \* pygame.time.get_ticks(), in units of 100 ms
    active,           \* sessions constructed and not yet closed
    state,            \* eyelink_graphics.state: "None", "calibration", "validation"
    shown,            \* the text on the calibration canvas
    twin              \* a second run of fix_triggered_drift_correction, or None

vars == <<recording, eye_used, cal_beep, cal_target_size, data_file, eyelink,
          pc, op, ret, calls, avail, newest, min_samples,
          reset_threshold, lx, ly, key, xy, polls, result, pos, max_dev, dev,
          drift_error, i, event, d, feed, consumed, source, arg, ticks, active,
          state, shown, twin>>

ftdcLocals == <<min_samples, reset_threshold, lx, ly, key, xy, polls, result,
                pos, max_dev, dev, drift_error>>
waitLocals == <<event, d, feed, consumed>>
\* the graphics environment handed to pylink
gfx == <<state, shown>>
\* what no operation of a constructed session but calibrate and close touches
cfg == <<cal_beep, cal_target_size, data_file, eyelink, arg, ticks, active, gfx>>

----
(* Bounds of the model *)

MaxPolls == 5
MaxMinSamples == 2
MaxFeed == 2
MaxTicks == 15
MaxStemChars == 9
MaxExtChars == 5
MaxSessions == 2

----
(* Program constants *)

MAX_TRY == 100
left_eye == 0
right_eye == 1
binocular == 2
DefaultMinSamples == 30
DefaultResetThreshold == 10
DefaultMaxDev == 60
DefaultTargetSize == 16

None == <<>>
Some(v) == <<v>>

\* data_file = "default.edf"
DefaultDataFile == <<"d", "e", "f", "a", "u", "l", "t", ".", "e", "d", "f">>

\* the resolution the session was constructed with
Resolution == <<1024, 768>>

Abs(n) == IF n < 0 THEN -n ELSE n

Count(seq, x) == Cardinality({j \in 1..Len(seq) : seq[j] = x})

NoRet == [outcome |-> "none", val |-> None, err |-> ""]
Return(v) == [outcome |-> "return", val |-> v, err |-> ""]
Raise(e) == [outcome |-> "raise", val |-> None, err |-> e]

----
(* The device and the operator, as far as the session can observe them *)

Gazes == {<<0, 0>>, <<5, 0>>, <<0, 20>>}
Thresholds == {4, 5}
Missing == <<-32768, -32768>>

NoSample == [present |-> FALSE, isLeft |-> FALSE, isRight |-> FALSE,
             left |-> Missing, right |-> Missing]
MonoL(g) == [present |-> TRUE, isLeft |-> TRUE, isRight |-> FALSE,
             left |-> g, right |-> Missing]
MonoR(g) == [present |-> TRUE, isLeft |-> FALSE, isRight |-> TRUE,
             left |-> Missing, right |-> g]
Bino(gl, gr) == [present |-> TRUE, isLeft |-> TRUE, isRight |-> TRUE,
                 left |-> gl, right |-> gr]

WalkGaze(n) == <<5 * (n % 2), 0>>

EyeAnswers == -1..2

\* eyeAvailable() is only called when the eye is unresolved
EnvAnswers(eye) ==
    IF eye # None THEN {eye[1]}
    ELSE IF source = "any" THEN EyeAnswers
    ELSE {left_eye, right_eye, binocular}

EnvSamples(n) ==
    IF source = "same" THEN {Bino(<<0, 0>>, <<0, 0>>)}
    ELSE IF source = "walk" THEN {Bino(WalkGaze(n), WalkGaze(n))}
    ELSE {NoSample} \cup {MonoL(g) : g \in Gazes} \cup {MonoR(g) : g \in Gazes}
         \cup {Bino(gl, gr) : gl \in Gazes, gr \in Gazes}

EnvKeys == IF source = "any" THEN {"none", "escape", "q"} ELSE {"none"}

CalOk == [raised |-> FALSE, value |-> 0]
CalFail == [raised |-> FALSE, value |-> 1]
CalRaise == [raised |-> TRUE, value |-> 0]

\* getCalibrationResult() is only called when the buffer is full
EnvResults(full) ==
    IF ~full THEN {CalOk}
    ELSE IF source = "any" THEN {CalOk, CalFail, CalRaise}
    ELSE {CalOk}

EnvBlockStart == IF source = "any" THEN BOOLEAN ELSE {TRUE}

ParamMinSamples == IF source = "any" THEN 0..MaxMinSamples ELSE {DefaultMinSamples}
ParamResetThreshold == IF source = "any" THEN Thresholds ELSE {DefaultResetThreshold}

PollCap == IF source = "any" THEN MaxPolls ELSE DefaultMinSamples + MaxPolls

EventKinds == {"STARTBLINK", "ENDBLINK", "STARTSACC", "ENDSACC", "STARTFIX", "ENDFIX"}

EventItem(k, t) == [kind |-> k, time |-> t, start |-> <<t, 0>>, end |-> <<t, 1>>]

\* the locals of the operations that are not running
FtdcIdle ==
    /\ min_samples' = 0 /\ reset_threshold' = 0
    /\ lx' = <<>> /\ ly' = <<>> /\ key' = "none" /\ xy' = None /\ polls' = 0
    /\ result' = None /\ pos' = None /\ max_dev' = 0 /\ dev' = None
    /\ drift_error' = None

WaitIdle ==
    /\ event' = "0" /\ d' = "0" /\ feed' = <<>> /\ consumed' = <<>>

----
(* set_eye_used *)

\* SetEyeUsed, with a binocular answer resolved to the right eye
SetEyeUsedBinoRight(ans) ==
    IF ans = right_eye \/ ans = binocular
    THEN [eye_used |-> Some(right_eye), raised |-> FALSE,
          calls |-> <<"eyeAvailable", "sendMessage(var eye_used right)">>]
    ELSE IF ans = left_eye
    THEN [eye_used |-> Some(left_eye), raised |-> FALSE,
          calls |-> <<"eyeAvailable", "sendMessage(var eye_used left)">>]
    ELSE [eye_used |-> Some(ans), raised |-> TRUE,
          calls |-> <<"eyeAvailable">>]

SetEyeUsed(ans) ==
    IF ans = right_eye
    THEN [eye_used |-> Some(right_eye), raised |-> FALSE,
          calls |-> <<"eyeAvailable", "sendMessage(var eye_used right)">>]
    ELSE IF ans = left_eye \/ ans = binocular
    THEN [eye_used |-> Some(left_eye), raised |-> FALSE,
          calls |-> <<"eyeAvailable", "sendMessage(var eye_used left)">>]
    ELSE [eye_used |-> Some(ans), raised |-> TRUE,
          calls |-> <<"eyeAvailable">>]

\* LazyEye, asking the device at every call
LazyEyeAlways(eye, ans) ==
    LET r == SetEyeUsed(ans)
    IN  [eye_used |-> r.eye_used, raised |-> r.raised, calls |-> r.calls,
         avail |-> Some(ans)]

\* "if self.eye_used == None: self.set_eye_used()"
LazyEye(eye, ans) ==
    IF eye = None
    THEN LET r == SetEyeUsed(ans)
         IN  [eye_used |-> r.eye_used, raised |-> r.raised, calls |-> r.calls,
              avail |-> Some(ans)]
    ELSE [eye_used |-> eye, raised |-> FALSE, calls |-> <<>>, avail |-> None]

----
(* sample *)

\* the value bound to gaze at "return gaze", or None when no branch bound it
Gaze(eye, s) ==
    IF s.present /\ eye = Some(right_eye) /\ s.isRight THEN Some(s.right)
    ELSE IF s.present /\ eye = Some(left_eye) /\ s.isLeft THEN Some(s.left)
    ELSE None

SampleBody(eye, ans, s) ==
    LET e == LazyEye(eye, ans)
        g == Gaze(e.eye_used, s)
    IN  IF e.raised
        THEN [eye_used |-> e.eye_used, avail |-> e.avail, calls |-> e.calls,
              newest |-> None, ret |-> Raise("eye")]
        ELSE [eye_used |-> e.eye_used, avail |-> e.avail,
              calls |-> e.calls \o <<"getNewestSample">>, newest |-> Some(s),
              ret |-> IF g = None THEN Raise("UnboundLocalError") ELSE Return(g[1])]

\* SampleOp without the recording check
SampleOpUnchecked(rec, eye, ans, s) == SampleBody(eye, ans, s)

SampleOp(rec, eye, ans, s) ==
    IF ~rec
    THEN [eye_used |-> eye, avail |-> None, calls |-> <<>>, newest |-> None,
          ret |-> Raise("not_recording")]
    ELSE SampleBody(eye, ans, s)

SampleCall ==
    /\ pc = "idle"
    /\ \E ans \in EnvAnswers(eye_used), s \in EnvSamples(0) :
          LET r == SampleOp(recording, eye_used, ans, s)
          IN  /\ eye_used' = r.eye_used
              /\ avail' = r.avail
              /\ newest' = r.newest
              /\ calls' = r.calls
              /\ ret' = r.ret
    /\ op' = "sample"
    /\ FtdcIdle
    /\ i' = 0
    /\ WaitIdle
    /\ UNCHANGED <<recording, pc, source, cfg, twin>>

SetEyeUsedCall ==
    /\ pc = "idle"
    /\ \E ans \in EyeAnswers :
          LET r == SetEyeUsed(ans)
          IN  /\ eye_used' = r.eye_used
              /\ avail' = Some(ans)
              /\ newest' = None
              /\ calls' = r.calls
              /\ ret' = IF r.raised THEN Raise("eye") ELSE Return(None)
    /\ op' = "set_eye_used"
    /\ FtdcIdle
    /\ i' = 0
    /\ WaitIdle
    /\ UNCHANGED <<recording, pc, source, cfg, twin>>

----
(* wait_for_event and the six wait_for_* operations built on it *)

WaitOps == {"wait_for_saccade_start", "wait_for_saccade_end",
            "wait_for_fixation_start", "wait_for_fixation_end",
            "wait_for_blink_start", "wait_for_blink_end"}

KindOf(w) ==
    CASE w = "wait_for_saccade_start" -> "STARTSACC"
      [] w = "wait_for_saccade_end" -> "ENDSACC"
      [] w = "wait_for_fixation_start" -> "STARTFIX"
      [] w = "wait_for_fixation_end" -> "ENDFIX"
      [] w = "wait_for_blink_start" -> "STARTBLINK"
      [] w = "wait_for_blink_end" -> "ENDBLINK"

\* what the operation returns for the item d handed back by wait_for_event
Project(w, item) ==
    CASE w = "wait_for_saccade_start" -> <<item.time, item.start>>
      [] w = "wait_for_saccade_end" -> <<item.time, item.start, item.end>>
      [] w = "wait_for_fixation_start" -> <<item.time, item.start>>
      [] w = "wait_for_fixation_end" -> <<item.time, item.start, item.end>>
      [] w = "wait_for_blink_start" -> <<item.time>>
      [] w = "wait_for_blink_end" -> <<item.time>>

\* Waiting, leaving the loop on the first item of any kind
WaitingForAny(dd, ev) == dd = "0"

\* "while d != event"
Waiting(dd, ev) == dd # ev

\* entry of wait_for_event: the recording check and the lazy eye resolution
WaitEnter(rec, eye, ans) ==
    IF ~rec
    THEN [eye_used |-> eye, avail |-> None, calls |-> <<>>, raised |-> TRUE,
          ret |-> Raise("not_recording")]
    ELSE LET e == LazyEye(eye, ans)
         IN  [eye_used |-> e.eye_used, avail |-> e.avail, calls |-> e.calls,
              raised |-> e.raised,
              ret |-> IF e.raised THEN Raise("eye") ELSE NoRet]

WaitCall ==
    /\ pc = "idle"
    /\ \E w \in WaitOps, ans \in EnvAnswers(eye_used) :
          LET r == WaitEnter(recording, eye_used, ans)
          IN  /\ op' = w
              /\ event' = KindOf(w)
              /\ eye_used' = r.eye_used
              /\ avail' = r.avail
              /\ newest' = None
              /\ calls' = r.calls
              /\ ret' = r.ret
              /\ pc' = IF r.raised THEN "idle" ELSE "wait"
    /\ d' = "0" /\ feed' = <<>> /\ consumed' = <<>>
    /\ FtdcIdle
    /\ i' = 0
    /\ UNCHANGED <<recording, source, cfg, twin>>

\* the device queues one more event while the operation polls; the j-th event
\* of a call carries timestamp j
DeviceEvent ==
    /\ pc = "wait"
    /\ Len(consumed) + Len(feed) < MaxFeed
    /\ \E k \in EventKinds :
          feed' = Append(feed, EventItem(k, Len(consumed) + Len(feed) + 1))
    /\ UNCHANGED <<recording, eye_used, cal_beep, cal_target_size, data_file, eyelink,
                   pc, op, ret, calls, avail, newest, ftdcLocals, i, event, d,
                   consumed, source, arg, ticks, active, gfx, twin>>

\* one getNextData() that fetches an item; on an empty queue getNextData()
\* returns 0, which matches no kind, and the loop polls again: no change
WaitPoll ==
    /\ pc = "wait"
    /\ Waiting(d, event)
    /\ feed # <<>>
    /\ d' = Head(feed).kind
    /\ consumed' = Append(consumed, Head(feed))
    /\ feed' = Tail(feed)
    /\ calls' = Append(calls, "getNextData")
    /\ UNCHANGED <<recording, eye_used, pc, op, ret, avail, newest, ftdcLocals, i, event,
                   source, cfg, twin>>

\* the loop condition fails: getFloatData() hands back the item fetched last
WaitReturn ==
    /\ pc = "wait"
    /\ ~Waiting(d, event)
    /\ calls' = Append(calls, "getFloatData")
    /\ ret' = Return(Project(op, consumed[Len(consumed)]))
    /\ pc' = "idle"
    /\ UNCHANGED <<recording, eye_used, op, avail, newest, ftdcLocals, i, waitLocals,
                   source, cfg, twin>>

----
(* prepare_drift_correction and fix_triggered_drift_correction *)

PrepareCalls(ok) ==
    <<"sendCommand(heuristic_filter)", "sendCommand(drift_correction_targets)",
      "sendCommand(start_drift_correction)",
      IF ok THEN "waitForBlockStart:1" ELSE "waitForBlockStart:0">>

\* Accept, appending a sample equal to the last accepted one
AcceptRepeats(bx, by, x, y, thr) ==
    IF Len(bx) > 0 /\ (Abs(x - bx[Len(bx)]) > thr \/ Abs(y - by[Len(by)]) > thr)
    THEN [lx |-> <<>>, ly |-> <<>>]
    ELSE [lx |-> Append(bx, x), ly |-> Append(by, y)]

\* Accept, restarting the buffer from the deviating sample
AcceptKeepsDeviant(bx, by, x, y, thr) ==
    IF Len(bx) = 0 \/ x # bx[Len(bx)] \/ y # by[Len(by)]
    THEN IF Len(bx) > 0 /\ (Abs(x - bx[Len(bx)]) > thr \/ Abs(y - by[Len(by)]) > thr)
         THEN [lx |-> <<x>>, ly |-> <<y>>]
         ELSE [lx |-> Append(bx, x), ly |-> Append(by, y)]
    ELSE [lx |-> bx, ly |-> by]

\* Accept, appending the deviating sample instead of resetting
AcceptNoReset(bx, by, x, y, thr) ==
    IF Len(bx) = 0 \/ x # bx[Len(bx)] \/ y # by[Len(by)]
    THEN [lx |-> Append(bx, x), ly |-> Append(by, y)]
    ELSE [lx |-> bx, ly |-> by]

\* the buffer after one pulled sample (x, y)
Accept(bx, by, x, y, thr) ==
    IF Len(bx) = 0 \/ x # bx[Len(bx)] \/ y # by[Len(by)]
    THEN IF Len(bx) > 0 /\ (Abs(x - bx[Len(bx)]) > thr \/ Abs(y - by[Len(by)]) > thr)
         THEN [lx |-> <<>>, ly |-> <<>>]
         ELSE [lx |-> Append(bx, x), ly |-> Append(by, y)]
    ELSE [lx |-> bx, ly |-> by]

RECURSIVE Sum(_)
Sum(seq) == IF seq = <<>> THEN 0 ELSE Head(seq) + Sum(Tail(seq))

\* the whole number r in lo..hi with r * r <= n < (r + 1) * (r + 1)
RECURSIVE ISqrtIn(_, _, _)
ISqrtIn(n, lo, hi) ==
    IF lo = hi
    THEN lo
    ELSE LET mid == (lo + hi + 1) \div 2
         IN  IF mid * mid <= n THEN ISqrtIn(n, mid, hi) ELSE ISqrtIn(n, lo, mid - 1)

\* "sqrt( (avg_x-pos[0])**2 + (avg_y-pos[1])**2)", to whole pixels
Dist(dx, dy) == ISqrtIn(dx * dx + dy * dy, 0, Abs(dx) + Abs(dy))

\* "pos = self.resolution[0] / 2, self.resolution[1] / 2"
Center == <<Resolution[1] \div 2, Resolution[2] \div 2>>

\* Confirm, taking a mean position further than max_dev from the target as
\* a failed attempt
ConfirmRejectsFar(bx, by, ms, res, p, md) ==
    IF Len(bx) = ms
    THEN LET avg_x == Sum(bx) \div Len(bx)
             avg_y == Sum(by) \div Len(by)
             dd == Dist(avg_x - p[1], avg_y - p[2])
             rr == IF res.raised THEN -1 ELSE res.value
         IN  IF dd > md
             THEN [lx |-> <<>>, ly |-> <<>>, calls |-> <<>>,
                   result |-> None, dev |-> Some(dd)]
             ELSE [lx |-> IF rr # 0 THEN <<>> ELSE bx,
                   ly |-> IF rr # 0 THEN <<>> ELSE by,
                   calls |-> <<"sendKeybutton", "getCalibrationResult">>,
                   result |-> Some(rr), dev |-> Some(dd)]
    ELSE [lx |-> bx, ly |-> by, calls |-> <<>>, result |-> None, dev |-> None]

\* Confirm, keeping the buffer when the result query returns non-zero
ConfirmKeepsOnFailure(bx, by, ms, res, p, md) ==
    IF Len(bx) = ms
    THEN LET avg_x == Sum(bx) \div Len(bx)
             avg_y == Sum(by) \div Len(by)
             dd == Dist(avg_x - p[1], avg_y - p[2])
             rr == IF res.raised THEN -1 ELSE res.value
         IN  [lx |-> IF res.raised THEN <<>> ELSE bx,
              ly |-> IF res.raised THEN <<>> ELSE by,
              calls |-> <<"sendKeybutton", "getCalibrationResult">>,
              result |-> Some(rr), dev |-> Some(dd)]
    ELSE [lx |-> bx, ly |-> by, calls |-> <<>>, result |-> None, dev |-> None]

\* "if len(lx) == min_samples": the mean position and its distance d from the
\* target, the confirmation key press and the result query; max_dev (md) is
\* a parameter the code never reads
Confirm(bx, by, ms, res, p, md) ==
    IF Len(bx) = ms
    THEN LET avg_x == Sum(bx) \div Len(bx)
             avg_y == Sum(by) \div Len(by)
             dd == Dist(avg_x - p[1], avg_y - p[2])
             rr == IF res.raised THEN -1 ELSE res.value
         IN  [lx |-> IF rr # 0 THEN <<>> ELSE bx,
              ly |-> IF rr # 0 THEN <<>> ELSE by,
              calls |-> <<"sendKeybutton", "getCalibrationResult">>,
              result |-> Some(rr), dev |-> Some(dd)]
    ELSE [lx |-> bx, ly |-> by, calls |-> <<>>, result |-> None, dev |-> None]

\* Cancel, leaving the recording flag set
CancelLeak(cl) ==
    [recording |-> TRUE, calls |-> Append(cl, "get_key"), ret |-> Return(FALSE)]

\* a cancel key was read at the head of the iteration
Cancel(cl) ==
    [recording |-> FALSE, calls |-> Append(cl, "get_key"), ret |-> Return(FALSE)]

\* the call up to the loop, for parameters (ms, thr, p, md) and the device's
\* block-start answer ok
FtdcCallWith(ms, thr, ok, p, md) ==
    /\ pc = "idle"
    /\ op' = "fix_triggered_drift_correction"
    /\ avail' = None
    /\ newest' = None
    /\ lx' = <<>> /\ ly' = <<>> /\ key' = "none" /\ xy' = None /\ polls' = 0
    /\ result' = None /\ dev' = None /\ drift_error' = None
    /\ i' = 0
    /\ WaitIdle
    /\ min_samples' = ms
    /\ reset_threshold' = thr
    /\ max_dev' = md
    /\ IF recording
       THEN /\ ret' = Raise("sequencing")
            /\ calls' = <<>>
            /\ pc' = "idle"
            /\ pos' = p
            /\ UNCHANGED recording
       ELSE /\ recording' = TRUE
            /\ pos' = IF p = None THEN Center ELSE p
            /\ calls' = PrepareCalls(ok)
            /\ ret' = IF ok THEN NoRet ELSE Raise("waitForBlockStart")
            /\ pc' = IF ok THEN "ftdc" ELSE "idle"
    /\ UNCHANGED <<eye_used, source, cfg>>

FtdcCall ==
    /\ \E ms \in ParamMinSamples, thr \in ParamResetThreshold, ok \in EnvBlockStart :
          FtdcCallWith(ms, thr, ok, None, DefaultMaxDev)
    /\ UNCHANGED twin

\* one iteration of the loop, for the key k read, the eye answer ans (if the
\* eye is queried), the newest sample s and the result query's answer res
\* (if the buffer fills up)
FtdcIterWith(k, ans, s, res) ==
    /\ pc = "ftdc"
    /\ Len(lx) < min_samples
    /\ polls < PollCap
    /\ polls' = polls + 1
    /\ key' = k
    /\ IF k # "none"
       THEN LET c == Cancel(calls)
            IN  /\ recording' = c.recording
                /\ calls' = c.calls
                /\ ret' = c.ret
                /\ pc' = "idle"
                /\ xy' = None
                /\ newest' = None
                /\ result' = None /\ dev' = None
                /\ UNCHANGED <<eye_used, avail, lx, ly>>
       ELSE LET r == SampleOp(recording, eye_used, ans, s)
            IN  /\ eye_used' = r.eye_used
                /\ avail' = IF r.avail # None THEN r.avail ELSE avail
                /\ newest' = r.newest
                /\ IF r.ret.outcome = "raise"
                   THEN /\ ret' = r.ret
                        /\ pc' = "idle"
                        /\ calls' = Append(calls, "get_key") \o r.calls
                        /\ xy' = None
                        /\ result' = None /\ dev' = None
                        /\ UNCHANGED <<recording, lx, ly>>
                   ELSE LET a == Accept(lx, ly, r.ret.val[1], r.ret.val[2],
                                        reset_threshold)
                            c == Confirm(a.lx, a.ly, min_samples, res, pos, max_dev)
                        IN  /\ lx' = c.lx
                            /\ ly' = c.ly
                            /\ xy' = r.ret.val
                            /\ result' = c.result
                            /\ dev' = c.dev
                            /\ calls' = Append(calls, "get_key") \o r.calls \o c.calls
                            /\ UNCHANGED <<recording, ret, pc>>
    /\ UNCHANGED <<op, min_samples, reset_threshold, pos, max_dev, drift_error, i, waitLocals,
                   source, cfg>>

\* the inputs that make a difference to the iteration: after a cancel key
\* nothing else is read
IterInputs ==
    {<<k, CHOOSE a \in EnvAnswers(eye_used) : TRUE,
          CHOOSE z \in EnvSamples(polls) : TRUE, CalOk>> : k \in EnvKeys \ {"none"}}
    \cup ({"none"} \X EnvAnswers(eye_used) \X EnvSamples(polls)
                   \X EnvResults(Len(lx) + 1 = min_samples))

FtdcIter ==
    /\ \E in \in IterInputs : FtdcIterWith(in[1], in[2], in[3], in[4])
    /\ UNCHANGED twin

\* the loop condition fails: apply the correction and return True
FtdcDoneCore ==
    /\ pc = "ftdc"
    /\ ~(Len(lx) < min_samples)
    /\ calls' = Append(calls, "applyDriftCorrect")
    /\ recording' = FALSE
    /\ ret' = Return(TRUE)
    /\ pc' = "idle"
    /\ UNCHANGED <<eye_used, op, avail, newest, ftdcLocals, i, waitLocals, source, cfg>>

FtdcDone == FtdcDoneCore /\ UNCHANGED twin

----
(* start_recording and stop_recording *)

StartCall ==
    /\ pc = "idle"
    /\ op' = "start_recording"
    /\ recording' = TRUE
    /\ i' = 0
    /\ pc' = "start"
    /\ ret' = NoRet
    /\ calls' = <<>>
    /\ avail' = None
    /\ newest' = None
    /\ FtdcIdle
    /\ WaitIdle
    /\ UNCHANGED <<eye_used, source, cfg, twin>>

\* "if i > self.MAX_TRY: raise"
Exhausted(n) == n > MAX_TRY

\* one pass of the "while True" loop; a successful start command leaves the
\* loop and goes on to the block-start wait
StartAttempt ==
    /\ pc = "start"
    /\ \E error \in BOOLEAN, ok \in BOOLEAN :
          IF ~error
          THEN /\ calls' = calls \o <<"startRecording", "beginRealTimeMode",
                                       IF ok THEN "waitForBlockStart:1"
                                             ELSE "waitForBlockStart:0">>
               /\ ret' = IF ok THEN Return(None) ELSE Raise("waitForBlockStart")
               /\ pc' = "idle"
               /\ UNCHANGED i
          ELSE IF Exhausted(i)
          THEN /\ calls' = Append(calls, "startRecording")
               /\ ret' = Raise("startRecording")
               /\ pc' = "idle"
               /\ UNCHANGED i
          ELSE /\ calls' = Append(calls, "startRecording")
               /\ i' = i + 1
               /\ UNCHANGED <<ret, pc>>
    /\ UNCHANGED <<recording, eye_used, op, avail, newest, ftdcLocals, waitLocals,
                   source, cfg, twin>>

\* StopRecording, flipping the flag instead of clearing it
StopRecordingToggles(rec) ==
    [recording |-> ~rec, calls |-> <<"endRealTimeMode", "setOfflineMode">>]

\* the body of stop_recording
StopRecording(rec) ==
    [recording |-> FALSE, calls |-> <<"endRealTimeMode", "setOfflineMode">>]

StopCall ==
    /\ pc = "idle"
    /\ op' = "stop_recording"
    /\ recording' = StopRecording(recording).recording
    /\ calls' = StopRecording(recording).calls
    /\ ret' = Return(None)
    /\ avail' = None
    /\ newest' = None
    /\ i' = 0
    /\ FtdcIdle
    /\ WaitIdle
    /\ UNCHANGED <<eye_used, pc, source, cfg, twin>>

----
(* calibrate, drift_correction and close *)

\* the calibrate() arguments tried: the defaults and one other pair
CalibrateArgs == {<<TRUE, DefaultTargetSize>>, <<FALSE, 8>>}

\* Calibrate, without the check of the recording flag
CalibrateUnchecked(rec, cb, cs, beep, target_size, ok) ==
    [cal_beep |-> beep, cal_target_size |-> target_size,
     calls |-> <<"doTrackerSetup">>,
     ret |-> IF ok THEN Return(None) ELSE Raise("doTrackerSetup")]

\* the body of calibrate(beep, target_size) for a session with flag rec and
\* settings (cb, cs); ok: doTrackerSetup() does not raise
Calibrate(rec, cb, cs, beep, target_size, ok) ==
    IF rec
    THEN [cal_beep |-> cb, cal_target_size |-> cs, calls |-> <<>>,
          ret |-> Raise("sequencing")]
    ELSE [cal_beep |-> beep, cal_target_size |-> target_size,
          calls |-> <<"doTrackerSetup">>,
          ret |-> IF ok THEN Return(None) ELSE Raise("doTrackerSetup")]

CalibrateCall ==
    /\ pc = "idle"
    /\ op' = "calibrate"
    /\ \E a \in CalibrateArgs, ok \in BOOLEAN :
          LET c == Calibrate(recording, cal_beep, cal_target_size, a[1], a[2], ok)
          IN  /\ cal_beep' = c.cal_beep
              /\ cal_target_size' = c.cal_target_size
              /\ calls' = c.calls
              /\ ret' = c.ret
    /\ avail' = None
    /\ newest' = None
    /\ i' = 0
    /\ FtdcIdle
    /\ WaitIdle
    /\ UNCHANGED <<recording, eye_used, pc, source, data_file, eyelink, arg, ticks,
                   active, gfx, twin>>

\* what doDriftCorrect() can do: return a code (27 is escape) or raise
DriftOk == [raised |-> FALSE, value |-> 0]
DriftEscape == [raised |-> FALSE, value |-> 27]
DriftOther == [raised |-> FALSE, value |-> 1]
DriftRaise == [raised |-> TRUE, value |-> 0]
EnvDrift == {DriftOk, DriftEscape, DriftOther, DriftRaise}

\* the target positions tried: None for the display centre, or a point
Targets == {None, <<0, 0>>}

\* DriftCorrect, letting the device's exception through
DriftCorrectPropagates(conn, res) ==
    IF ~conn
    THEN [ret |-> Raise("not connected"), calls |-> <<"isConnected">>,
          error |-> None]
    ELSE [ret |-> IF res.raised THEN Raise("doDriftCorrect")
                  ELSE IF res.value # 27 THEN Return(TRUE) ELSE Return(FALSE),
          calls |-> <<"isConnected", "doDriftCorrect">>,
          error |-> IF res.raised THEN None ELSE Some(res.value)]

\* the "while True" block of drift_correction: every path leaves it in its
\* first pass; conn: isConnected(), res: what doDriftCorrect() does
DriftCorrect(conn, res) ==
    IF ~conn
    THEN [ret |-> Raise("not connected"), calls |-> <<"isConnected">>,
          error |-> None]
    ELSE [ret |-> IF res.raised THEN Return(FALSE)
                  ELSE IF res.value # 27 THEN Return(TRUE) ELSE Return(FALSE),
          calls |-> <<"isConnected", "doDriftCorrect">>,
          error |-> IF res.raised THEN None ELSE Some(res.value)]

\* drift_correction(pos, fix_triggered) that is refused or operator-triggered
DriftOperator(p, conn, res) ==
    /\ pc = "idle"
    /\ op' = "drift_correction"
    /\ avail' = None
    /\ newest' = None
    /\ i' = 0
    /\ min_samples' = 0 /\ reset_threshold' = 0
    /\ lx' = <<>> /\ ly' = <<>> /\ key' = "none" /\ xy' = None /\ polls' = 0
    /\ result' = None /\ max_dev' = 0 /\ dev' = None
    /\ WaitIdle
    /\ IF recording
       THEN /\ ret' = Raise("sequencing")
            /\ calls' = <<>>
            /\ pos' = p
            /\ drift_error' = None
       ELSE LET c == DriftCorrect(conn, res)
            IN  /\ ret' = c.ret
                /\ calls' = c.calls
                /\ pos' = IF p = None THEN Center ELSE p
                /\ drift_error' = c.error
    /\ UNCHANGED <<recording, eye_used, pc, source, cfg>>

\* "if fix_triggered: return self.fix_triggered_drift_correction(pos)" hands
\* the call over with the other parameters at their defaults
DriftCall ==
    /\ \E p \in Targets, fix_triggered \in BOOLEAN :
          IF fix_triggered /\ ~recording
          THEN \E ok \in EnvBlockStart :
                  FtdcCallWith(DefaultMinSamples, DefaultResetThreshold, ok, p,
                               DefaultMaxDev)
          ELSE \E conn \in BOOLEAN, res \in EnvDrift : DriftOperator(p, conn, res)
    /\ UNCHANGED twin

\* Close, stopping the recording whether or not it is on
CloseAlwaysStops(rec) ==
    [recording |-> StopRecording(rec).recording,
     calls |-> StopRecording(rec).calls
               \o <<"closeDataFile", "receiveDataFile", "close">>]

\* the body of close()
Close(rec) ==
    [recording |-> IF rec THEN StopRecording(rec).recording ELSE rec,
     calls |-> (IF rec THEN StopRecording(rec).calls ELSE <<>>)
               \o <<"closeDataFile", "receiveDataFile", "close">>]

\* after close() the model makes no further call on the session
CloseCall ==
    /\ pc = "idle"
    /\ op' = "close"
    /\ pc' = "closed"
    /\ recording' = Close(recording).recording
    /\ calls' = Close(recording).calls
    /\ ret' = Return(None)
    /\ active' = active - 1
    /\ avail' = None
    /\ newest' = None
    /\ i' = 0
    /\ FtdcIdle
    /\ WaitIdle
    /\ UNCHANGED <<eye_used, source, cal_beep, cal_target_size, data_file, eyelink,
                   arg, ticks, gfx, twin>>

----
(* send_command, log, log_var and status_msg *)

PassOps == {"send_command", "log", "log_var", "status_msg"}

\* the one pylink call the operation o makes; up: the Link is connected when
\* the call reaches it.  The operations do not ask whether it is.
PassThrough(o, up) ==
    <<(IF o \in {"send_command", "status_msg"}
       THEN (IF up THEN "sendCommand" ELSE "sendCommand:down")
       ELSE (IF up THEN "sendMessage" ELSE "sendMessage:down"))>>

\* on a Link that is down the pylink call may return or raise
PassThroughCall ==
    /\ pc = "idle"
    /\ \E o \in PassOps, up \in BOOLEAN :
          /\ op' = o
          /\ calls' = PassThrough(o, up)
          /\ \E raised \in (IF up THEN {FALSE} ELSE BOOLEAN) :
                ret' = IF raised THEN Raise("pylink") ELSE Return(None)
    /\ avail' = None
    /\ newest' = None
    /\ i' = 0
    /\ FtdcIdle
    /\ WaitIdle
    /\ UNCHANGED <<recording, eye_used, pc, source, cfg, twin>>

----
(* eyelink_graphics: the callbacks pylink makes while it is in tracker setup *)

\* what my_keyboard.get_key() followed by to_chr() may deliver; "none": no
\* key within the timeout; "x": any key that get_input_key does not name
Keys == {"none", "return", "space", "q", "c", "v", "a", "up", "down", "left",
         "right", "escape", "x"}

\* the beep ids of pylink
Beeps == {"CAL_TARG_BEEP", "CAL_ERR_BEEP", "DC_ERR_BEEP", "CAL_GOOD_BEEP",
          "DC_GOOD_BEEP", "DC_TARG_BEEP"}

\* the keycode get_input_key passes for key k
KeyCode(k) ==
    CASE k = "return" -> "ENTER_KEY"
      [] k = "space" -> " "
      [] k = "q" -> "ESC_KEY"
      [] k \in {"c", "v", "a"} -> k
      [] k = "up" -> "CURS_UP"
      [] k = "down" -> "CURS_DOWN"
      [] k = "left" -> "CURS_LEFT"
      [] k = "right" -> "CURS_RIGHT"
      [] OTHER -> "0"

\* InputKey, with the Escape key handled like 'q'
InputKeyEscapeClears(st, k, raised) ==
    IF raised \/ k = "none"
    THEN [state |-> st, ret |-> Return(None)]
    ELSE [state |-> CASE k \in {"return", "q", "escape"} -> "None"
                      [] k = "c" -> "calibration"
                      [] k = "v" -> "validation"
                      [] OTHER -> st,
          ret |-> Return(<<IF k = "escape" THEN "ESC_KEY" ELSE KeyCode(k)>>)]

\* get_input_key with the display in state st; raised: get_key() raised;
\* ret: None, or the list of one KeyInput, here its keycode
InputKey(st, k, raised) ==
    IF raised \/ k = "none"
    THEN [state |-> st, ret |-> Return(None)]
    ELSE [state |-> CASE k \in {"return", "q"} -> "None"
                      [] k = "c" -> "calibration"
                      [] k = "v" -> "validation"
                      [] OTHER -> st,
          ret |-> Return(<<KeyCode(k)>>)]

\* play_beep(b) with the display in state st and the canvas showing sh
Beep(st, b, sh) ==
    CASE b = "CAL_TARG_BEEP" ->
           [shown |-> sh, calls |-> <<"target_beep.play">>]
      [] b \in {"CAL_ERR_BEEP", "DC_ERR_BEEP"} ->
           [shown |-> "Calibration unsuccessfull | Press 'Enter' to return to menu",
            calls |-> <<"canvas.show", "target_beep_error.play">>]
      [] b = "CAL_GOOD_BEEP" ->
           [shown |-> CASE st = "calibration" -> "Success! | Press 'v' to validate"
                        [] st = "validation" ->
                             "Success! | Press 'Enter' to return to menu"
                        [] OTHER -> "Press 'Enter' to return to menu",
            calls |-> <<"canvas.show", "target_beep_done.play">>]
      [] OTHER -> [shown |-> sh, calls |-> <<>>]

\* pylink asks for a key.  Whether the keyboard delivers the Escape key or
\* raises on it is the keyboard's affair; get_key() may also raise with no
\* key at all.
GetInputKey ==
    /\ pc = "idle"
    /\ eyelink # None
    /\ op' = "get_input_key"
    /\ \E k \in Keys :
          \E raised \in (IF k \in {"none", "escape"} THEN BOOLEAN ELSE {FALSE}) :
             /\ key' = k
             /\ calls' = <<IF raised THEN "get_key:raise" ELSE "get_key">>
             /\ state' = InputKey(state, k, raised).state
             /\ ret' = InputKey(state, k, raised).ret
    /\ avail' = None
    /\ newest' = None
    /\ i' = 0
    /\ min_samples' = 0 /\ reset_threshold' = 0
    /\ lx' = <<>> /\ ly' = <<>> /\ xy' = None /\ polls' = 0
    /\ result' = None /\ pos' = None /\ max_dev' = 0 /\ dev' = None
    /\ drift_error' = None
    /\ WaitIdle
    /\ UNCHANGED <<recording, eye_used, pc, source, cal_beep, cal_target_size,
                   data_file, eyelink, arg, ticks, active, shown, twin>>

\* pylink asks for a beep
PlayBeep ==
    /\ pc = "idle"
    /\ eyelink # None
    /\ op' = "play_beep"
    /\ \E b \in Beeps :
          /\ shown' = Beep(state, b, shown).shown
          /\ calls' = Beep(state, b, shown).calls
    /\ ret' = Return(None)
    /\ avail' = None
    /\ newest' = None
    /\ i' = 0
    /\ FtdcIdle
    /\ WaitIdle
    /\ UNCHANGED <<recording, eye_used, pc, source, cal_beep, cal_target_size,
                   data_file, eyelink, arg, ticks, active, state, twin>>

----
(* Specifications *)

InitSession ==
    /\ recording = FALSE
    /\ eye_used = None
    /\ pc = "idle"
    /\ op = "__init__"
    /\ ret = Return(None)
    /\ calls = <<>>
    /\ avail = None
    /\ newest = None
    /\ min_samples = 0 /\ reset_threshold = 0
    /\ lx = <<>> /\ ly = <<>> /\ key = "none" /\ xy = None /\ polls = 0
    /\ result = None /\ pos = None /\ max_dev = 0 /\ dev = None
    /\ drift_error = None
    /\ i = 0
    /\ event = "0" /\ d = "0" /\ feed = <<>> /\ consumed = <<>>
    /\ cal_beep = TRUE
    /\ cal_target_size = DefaultTargetSize
    /\ data_file = DefaultDataFile
    /\ eyelink = Some("EyeLink")
    /\ arg = None
    /\ ticks = 0
    /\ active = 1
    /\ state = "None"
    /\ shown = ""

Init == InitSession /\ source = "any" /\ twin = None

Next ==
    \/ SampleCall
    \/ SetEyeUsedCall
    \/ WaitCall
    \/ DeviceEvent
    \/ WaitPoll
    \/ WaitReturn
    \/ FtdcCall
    \/ FtdcIter
    \/ FtdcDone
    \/ StartCall
    \/ StartAttempt
    \/ StopCall
    \/ CalibrateCall
    \/ DriftCall
    \/ CloseCall
    \/ PassThroughCall

Spec == Init /\ [][Next]_vars

\* fix_triggered_drift_correction with its defaults, no cancel key, a device
\* that reports block-start, an eye and a successful calibration result, and
\* a sample source that repeats one sample ("same") or alternates between
\* two samples 5 pixels apart ("walk")
InitSteady == InitSession /\ source \in {"same", "walk"} /\ twin = None

NextSteady == FtdcCall \/ FtdcIter \/ FtdcDone

SpecSteady == InitSteady /\ [][NextSteady]_vars

----
(* Two runs of fix_triggered_drift_correction on the same inputs *)

\* the second session before its first call
TwinInit ==
    [pc |-> "idle", recording |-> FALSE, eye_used |-> None, ret |-> Return(None),
     calls |-> <<>>, lx |-> <<>>, ly |-> <<>>, pos |-> None, max_dev |-> 0,
     dev |-> None, result |-> None]

\* the call up to the loop, in the second run
TwinCall(tw, ok, p, md) ==
    IF tw.recording
    THEN [tw EXCEPT !.ret = Raise("sequencing"), !.calls = <<>>, !.pc = "idle",
                    !.lx = <<>>, !.ly = <<>>, !.pos = p, !.max_dev = md,
                    !.dev = None, !.result = None]
    ELSE [pc |-> IF ok THEN "ftdc" ELSE "idle",
          recording |-> TRUE,
          eye_used |-> tw.eye_used,
          ret |-> IF ok THEN NoRet ELSE Raise("waitForBlockStart"),
          calls |-> PrepareCalls(ok),
          lx |-> <<>>, ly |-> <<>>,
          pos |-> IF p = None THEN Center ELSE p,
          max_dev |-> md, dev |-> None, result |-> None]

\* one iteration of the loop in the second run, if it is still in its loop
TwinIter(tw, ms, thr, k, ans, s, res) ==
    IF ~(tw.pc = "ftdc" /\ Len(tw.lx) < ms)
    THEN tw
    ELSE IF k # "none"
    THEN LET c == Cancel(tw.calls)
         IN  [tw EXCEPT !.recording = c.recording, !.calls = c.calls,
                        !.ret = c.ret, !.pc = "idle", !.dev = None,
                        !.result = None]
    ELSE LET r == SampleOp(tw.recording, tw.eye_used, ans, s)
         IN  IF r.ret.outcome = "raise"
             THEN [tw EXCEPT !.eye_used = r.eye_used, !.ret = r.ret,
                             !.pc = "idle",
                             !.calls = Append(tw.calls, "get_key") \o r.calls,
                             !.dev = None, !.result = None]
             ELSE LET a == Accept(tw.lx, tw.ly, r.ret.val[1], r.ret.val[2], thr)
                      c == Confirm(a.lx, a.ly, ms, res, tw.pos, tw.max_dev)
                  IN  [tw EXCEPT !.eye_used = r.eye_used,
                                 !.lx = c.lx, !.ly = c.ly,
                                 !.result = c.result, !.dev = c.dev,
                                 !.calls = Append(tw.calls, "get_key")
                                           \o r.calls \o c.calls]

\* the end of the loop in the second run, if it has got there
TwinDone(tw, ms) ==
    IF tw.pc = "ftdc" /\ ~(Len(tw.lx) < ms)
    THEN [tw EXCEPT !.calls = Append(tw.calls, "applyDriftCorrect"),
                    !.recording = FALSE, !.ret = Return(TRUE), !.pc = "idle"]
    ELSE tw

\* the (pos, max_dev) arguments of the second run
TwinArgs == {<<<<0, 0>>, 0>>, <<<<0, 0>>, DefaultMaxDev>>, <<None, 0>>}

\* both runs are called with the same min_samples and reset_threshold on
\* devices that answer alike; the first run has the default target and
\* max_dev, the second run a target or a max_dev of its own
PairCall ==
    \E ms \in ParamMinSamples, thr \in ParamResetThreshold, ok \in EnvBlockStart,
       a \in TwinArgs :
          /\ FtdcCallWith(ms, thr, ok, None, DefaultMaxDev)
          /\ twin' = TwinCall(twin, ok, a[1], a[2])

\* both runs read the same key, eye answer, sample and calibration result
PairIter ==
    \E in \in IterInputs :
          /\ FtdcIterWith(in[1], in[2], in[3], in[4])
          /\ twin' = TwinIter(twin, min_samples, reset_threshold,
                              in[1], in[2], in[3], in[4])

PairDone ==
    /\ FtdcDoneCore
    /\ twin' = TwinDone(twin, min_samples)

InitPair == InitSession /\ source = "any" /\ twin = TwinInit

NextPair == PairCall \/ PairIter \/ PairDone

SpecPair == InitPair /\ [][NextPair]_vars

----
(* libeyelink_dummy *)

\* the operations of the dummy that do nothing and return None
DummyNoOps == {"calibrate", "start_recording", "stop_recording", "set_eye_used",
               "wait_for_event", "close"}

DriftOps == {"drift_correction", "fix_triggered_drift_correction"}

\* pygame.time.delay(ms) pauses for at least ms: in ticks of 100 ms, the
\* clock moves on by ms / 100 or one tick more
Delays(ms) == {ms \div 100, ms \div 100 + 1}

\* what the dummy's wait operation w returns at clock t
DummyWait(w, t) ==
    CASE w = "wait_for_saccade_start" -> <<t, <<0, 0>>>>
      [] w = "wait_for_saccade_end" -> <<t, <<0, 0>>, <<0, 0>>>>
      [] w = "wait_for_fixation_start" -> <<t, <<0, 0>>>>
      [] w = "wait_for_fixation_end" -> <<t, <<0, 0>>>>
      [] w = "wait_for_blink_start" -> <<t, <<0, 0>>>>
      [] w = "wait_for_blink_end" -> <<t, <<0, 0>>>>

\* the variables the dummy has no counterpart of
dummyFrame == <<recording, eye_used, cal_beep, cal_target_size, data_file, eyelink,
                pc, calls, avail, newest, ftdcLocals, i, waitLocals, source, arg,
                active, gfx, twin>>

DummyWaitCall ==
    /\ \E w \in WaitOps, dt \in Delays(100) :
          /\ ticks + dt <= MaxTicks
          /\ ticks' = ticks + dt
          /\ op' = w
          /\ ret' = Return(DummyWait(w, ticks'))
    /\ UNCHANGED dummyFrame

DummyDriftCall ==
    /\ \E o \in DriftOps, dt \in Delays(200) :
          /\ ticks + dt <= MaxTicks
          /\ ticks' = ticks + dt
          /\ op' = o
          /\ ret' = Return(TRUE)
    /\ UNCHANGED dummyFrame

DummySampleCall ==
    /\ op' = "sample"
    /\ ret' = Return(<<0, 0>>)
    /\ UNCHANGED ticks
    /\ UNCHANGED dummyFrame

DummyNoOpCall ==
    /\ \E o \in DummyNoOps : op' = o
    /\ ret' = Return(None)
    /\ UNCHANGED ticks
    /\ UNCHANGED dummyFrame

\* a dummy object: no session attributes, no Link, no device calls
InitDummy ==
    /\ recording = FALSE
    /\ eye_used = None
    /\ cal_beep = TRUE
    /\ cal_target_size = DefaultTargetSize
    /\ data_file = <<>>
    /\ eyelink = None
    /\ pc = "idle"
    /\ op = "__init__"
    /\ ret = Return(None)
    /\ calls = <<>>
    /\ avail = None
    /\ newest = None
    /\ min_samples = 0 /\ reset_threshold = 0
    /\ lx = <<>> /\ ly = <<>> /\ key = "none" /\ xy = None /\ polls = 0
    /\ result = None /\ pos = None /\ max_dev = 0 /\ dev = None
    /\ drift_error = None
    /\ i = 0
    /\ event = "0" /\ d = "0" /\ feed = <<>> /\ consumed = <<>>
    /\ source = "any"
    /\ arg = None
    /\ ticks = 0
    /\ active = 0
    /\ state = "None"
    /\ shown = ""
    /\ twin = None

NextDummy == DummyWaitCall \/ DummyDriftCall \/ DummySampleCall \/ DummyNoOpCall

SpecDummy == InitDummy /\ [][NextDummy]_vars

----
(* __init__ *)

\* "len(stem) > 8 or len(ext) > 4"
StemLimit == 8
ExtLimit == 4

\* p.rfind(c), counting positions from 1: 0 when c does not occur
RFind(p, c) ==
    LET S == {j \in 1..Len(p) : p[j] = c}
    IN  IF S = {} THEN 0 ELSE CHOOSE j \in S : \A k \in S : k <= j

\* os.path.splitext: the extension starts at the last dot that follows the
\* last separator and is not one of the leading dots of the file name, and
\* includes that dot
SplitExt(p) ==
    LET sepIndex == RFind(p, "/")
        dotIndex == RFind(p, ".")
    IN  IF dotIndex > sepIndex
           /\ \E j \in (sepIndex + 1)..(dotIndex - 1) : p[j] # "."
        THEN [stem |-> SubSeq(p, 1, dotIndex - 1), ext |-> SubSeq(p, dotIndex, Len(p))]
        ELSE [stem |-> p, ext |-> <<>>]

\* n times the character c
Chars(c, n) == [j \in 1..n |-> c]

\* the data_file arguments tried: an optional directory or leading dot, a
\* run of letters that is empty or at least as long as the limit, and
\* nothing or a dot with a run of letters
DataFiles ==
    {lead \o Chars("a", n) \o tail :
        lead \in {<<>>, <<".">>, <<"d", "/">>},
        n \in {0} \cup StemLimit..MaxStemChars,
        tail \in {<<>>} \cup {<<".">> \o Chars("x", m) :
                                 m \in (ExtLimit - 1)..(MaxExtChars - 1)}}

\* TooLong, checking the stem only
TooLongStemOnly(f) == Len(SplitExt(f).stem) > StemLimit

\* the test that raises the error about the file name
TooLong(f) ==
    Len(SplitExt(f).stem) > StemLimit \/ Len(SplitExt(f).ext) > ExtLimit

\* getTrackerVersion() and, for version 3, the software version read from
\* getTrackerVersionString()
Trackers == {<<1, 0>>, <<2, 0>>, <<3, 3>>, <<3, 4>>}

\* eyelink_graphics(experiment, _eyelink) and openGraphicsEx
GraphicsCalls(ver) ==
    <<"getTrackerVersion">>
    \o (IF ver >= 3
        THEN <<"sendCommand(enable_search_limits)", "sendCommand(track_search_limits)",
               "sendCommand(autothreshold_click)", "sendCommand(autothreshold_repeat)",
               "sendCommand(enable_camera_position_detect)">>
        ELSE <<>>)
    \o <<"openGraphicsEx">>

\* the calls from openDataFile to the choice of the parser configuration
OpenCalls(ver) ==
    <<"openDataFile", "flushGetkeyQueue", "setOfflineMode",
      "sendCommand(screen_pixel_coords)", "getTrackerVersion">>
    \o (IF ver = 3 THEN <<"getTrackerVersionString">> ELSE <<>>)
    \o (IF ver >= 2 THEN <<"sendCommand(select_parser_configuration)">> ELSE <<>>)
    \o (IF ver = 2 THEN <<"sendCommand(scene_camera_gazemap)">> ELSE <<>>)

\* the data filters, the button function and the connection check
FilterCalls(sw) ==
    <<"sendCommand(file_event_filter)",
      IF sw >= 4 THEN "sendCommand(file_sample_data HTARGET)"
                 ELSE "sendCommand(file_sample_data)",
      "sendCommand(link_event_filter)",
      IF sw >= 4 THEN "sendCommand(link_sample_data HTARGET)"
                 ELSE "sendCommand(link_sample_data)",
      "sendCommand(button_function)", "isConnected">>

\* the constructor for argument f, with the module's Link at link; linkOk:
\* pylink.EyeLink() does not raise; tr: the tracker's versions; conn: the
\* answer of isConnected().  For a tracker version below 2 the code reads
\* self.saccade_velocity_threshold, an attribute that was stored under the
\* name saccade_velocity_treshold, and fails there.
Construct(f, link, linkOk, tr, conn) ==
    IF TooLong(f)
    THEN [ret |-> Raise("config"), calls |-> <<>>, eyelink |-> link]
    ELSE IF link = None /\ ~linkOk
    THEN [ret |-> Raise("connect"), calls |-> <<"EyeLink">>, eyelink |-> link]
    ELSE LET first == IF link = None THEN <<"EyeLink">> \o GraphicsCalls(tr[1])
                                     ELSE <<>>
         IN  IF tr[1] < 2
             THEN [ret |-> Raise("AttributeError"),
                   calls |-> first \o OpenCalls(tr[1]),
                   eyelink |-> Some("EyeLink")]
             ELSE [ret |-> IF conn THEN Return(None) ELSE Raise("not connected"),
                   calls |-> first \o OpenCalls(tr[1]) \o FilterCalls(tr[2]),
                   eyelink |-> Some("EyeLink")]

\* the device inputs that make a difference to the constructor
CtorInputs(f, link) ==
    LET long == TooLong(f)
    IN  {in \in BOOLEAN \X Trackers \X BOOLEAN :
            /\ (long \/ link # None) => in[1]
            /\ (long \/ ~in[1]) => in[2] = <<2, 0>>
            /\ (long \/ ~in[1] \/ in[2][1] < 2) => in[3]}

\* a session is constructed: when there is none, when the last one was
\* closed, or while one is still open, for the constructor does not ask.  The
\* model follows the session constructed last; a graphics environment is
\* created together with the Link.
ConstructCall ==
    /\ pc \in {"none", "closed", "idle"}
    /\ active < MaxSessions
    /\ op' = "__init__"
    /\ \E f \in DataFiles :
          \E in \in CtorInputs(f, eyelink) :
             LET c == Construct(f, eyelink, in[1], in[2], in[3])
             IN  /\ arg' = f
                 /\ ret' = c.ret
                 /\ calls' = c.calls
                 /\ eyelink' = c.eyelink
                 /\ IF eyelink = None /\ c.eyelink # None
                    THEN state' = "None" /\ shown' = ""
                    ELSE UNCHANGED gfx
                 /\ IF c.ret.outcome = "return"
                    THEN /\ pc' = "idle"
                         /\ active' = active + 1
                         /\ recording' = FALSE
                         /\ eye_used' = None
                         /\ cal_beep' = TRUE
                         /\ cal_target_size' = DefaultTargetSize
                         /\ data_file' = f
                    ELSE UNCHANGED <<pc, recording, eye_used, cal_beep,
                                     cal_target_size, data_file, active>>
    /\ avail' = None
    /\ newest' = None
    /\ i' = 0
    /\ FtdcIdle
    /\ WaitIdle
    /\ UNCHANGED <<source, ticks, twin>>

\* the module is loaded and no session has been constructed
InitCtor ==
    /\ recording = FALSE
    /\ eye_used = None
    /\ cal_beep = TRUE
    /\ cal_target_size = DefaultTargetSize
    /\ data_file = <<>>
    /\ eyelink = None
    /\ pc = "none"
    /\ op = "import"
    /\ ret = Return(None)
    /\ calls = <<>>
    /\ avail = None
    /\ newest = None
    /\ min_samples = 0 /\ reset_threshold = 0
    /\ lx = <<>> /\ ly = <<>> /\ key = "none" /\ xy = None /\ polls = 0
    /\ result = None /\ pos = None /\ max_dev = 0 /\ dev = None
    /\ drift_error = None
    /\ i = 0
    /\ event = "0" /\ d = "0" /\ feed = <<>> /\ consumed = <<>>
    /\ source = "any"
    /\ arg = <<>>
    /\ ticks = 0
    /\ active = 0
    /\ state = "None"
    /\ shown = ""
    /\ twin = None

NextCtor == ConstructCall \/ CloseCall

SpecCtor == InitCtor /\ [][NextCtor]_vars

\* the display callbacks of a constructed session
NextCal == GetInputKey \/ PlayBeep

SpecCal == Init /\ [][NextCal]_vars

\* constructions, the pass-through operations and close
NextLink == ConstructCall \/ PassThroughCall \/ CloseCall

SpecLink == InitCtor /\ [][NextLink]_vars

----
(* Properties of fix_triggered_drift_correction *)

Ftdc == op = "fix_triggered_drift_correction"

Last(seq) == seq[Len(seq)]

\* C1: every fix_triggered_drift_correction call that started with
\* recording = false has recording = false again when it has ended, whether
\* it returned or raised.
C1_RecordingResetOnEveryExit ==
    (Ftdc /\ pc = "idle" /\ ret.err # "sequencing") => recording = FALSE

\* every getNewestSample() of the call is preceded, in the same iteration,
\* by a get_key()
KeyBeforeSample(cl) ==
    \A j \in 1..Len(cl) :
        cl[j] \in {"getNewestSample", "eyeAvailable"} =>
            \E k \in 1..(j - 1) :
                /\ cl[k] = "get_key"
                /\ \A m \in (k + 1)..(j - 1) : cl[m] \notin {"get_key", "getNewestSample"}

\* C2: the cancel key is read at the head of every iteration, before the
\* sample is pulled; once a cancel key has been read the call has returned
\* False, recording is false, no sample was pulled after the key and
\* applyDriftCorrect was not called.
C2_CancelEndsCall ==
    Ftdc =>
        /\ KeyBeforeSample(calls)
        /\ Count(calls, "get_key") = polls
        /\ key # "none" =>
              /\ pc = "idle"
              /\ ret.outcome = "return" /\ ret.val = FALSE
              /\ recording = FALSE
              /\ Last(calls) = "get_key"
              /\ Count(calls, "applyDriftCorrect") = 0

\* a cancel key read in a later iteration, with samples in the buffer
C2_Witness ==
    Ftdc /\ key # "none" /\ polls > 1 /\ Len(lx) > 0 /\ pc = "idle"

\* C3 as stated: with the defaults, no cancel key and a successful result
\* query, a source of 30 samples (identical ones included) leaves 30 entries
\* in the accepted buffer once the 30th sample has been pulled.
C3_SteadySourceFillsBuffer ==
    (Ftdc /\ polls = DefaultMinSamples) => Len(lx) = DefaultMinSamples

\* C3 amended: under the same conditions, a source whose every sample
\* differs from its predecessor by at most reset_threshold per axis adds one
\* entry per poll, holds 30 entries after 30 polls and the call then returns
\* True; a source that repeats one sample never gets past one entry and the
\* call does not return.
C3_DistinctSamplesFillBuffer ==
    Ftdc =>
        /\ source = "walk" =>
              /\ Len(lx) = polls
              /\ pc = "idle" =>
                    /\ ret.outcome = "return" /\ ret.val = TRUE
                    /\ polls = DefaultMinSamples
                    /\ Count(calls, "getNewestSample") = DefaultMinSamples
        /\ source = "same" =>
              /\ pc = "ftdc"
              /\ Len(lx) = (IF polls = 0 THEN 0 ELSE 1)

C3_Witness ==
    /\ Ftdc /\ source = "walk" /\ pc = "idle"
    /\ ret.outcome = "return" /\ ret.val = TRUE
    /\ Len(lx) = DefaultMinSamples

\* (x, y) is further than thr from the last accepted sample on some axis
Deviates(p, bx, by, thr) ==
    Abs(p[1] - Last(bx)) > thr \/ Abs(p[2] - Last(by)) > thr

\* C4: an iteration that starts with a non-empty buffer of fewer than
\* min_samples entries and pulls a sample further than reset_threshold from
\* the last accepted one, on the x axis or on the y axis, ends with an empty
\* buffer and the loop goes on.
C4_DeviationClearsBuffer ==
    [][(/\ pc = "ftdc"
        /\ polls' = polls + 1
        /\ xy' # None
        /\ Len(lx) > 0 /\ Len(lx) < min_samples
        /\ Deviates(xy', lx, ly, reset_threshold))
       => (/\ lx' = <<>> /\ ly' = <<>>
           /\ pc' = "ftdc" /\ ret' = NoRet /\ recording')]_vars

\* the buffer of a call with min_samples > 1 is empty after a later sample,
\* and no result query has emptied it
C4_Witness ==
    /\ Ftdc /\ pc = "ftdc" /\ min_samples > 1
    /\ polls > 1 /\ xy # None /\ lx = <<>>
    /\ Count(calls, "getCalibrationResult") = 0

----
(* Properties of start_recording *)

Starting == op = "start_recording"

\* C5: one start_recording call issues at most MAX_TRY start commands, and
\* when it raises the start error it has issued exactly MAX_TRY of them.
C5_ExactlyMaxTryStarts ==
    Starting =>
        /\ Count(calls, "startRecording") <= MAX_TRY
        /\ (pc = "idle" /\ ret.err = "startRecording") =>
               Count(calls, "startRecording") = MAX_TRY

\* C6: start_recording returns normally exactly when one of its first
\* MAX_TRY start commands succeeded and the block-start wait that followed
\* succeeded; the wait follows a successful start command only, and a failed
\* wait raises.
C6_ReturnsIffStartedWithinBound ==
    Starting =>
        /\ \A j \in 1..Len(calls) :
              calls[j] \in {"waitForBlockStart:0", "waitForBlockStart:1"} =>
                  /\ j = Len(calls) /\ j > 2
                  /\ calls[j - 1] = "beginRealTimeMode"
                  /\ calls[j - 2] = "startRecording"
        /\ pc = "idle" =>
              /\ ret.outcome = "return" <=>
                    /\ Count(calls, "startRecording") <= MAX_TRY
                    /\ Last(calls) = "waitForBlockStart:1"
              /\ Last(calls) = "waitForBlockStart:0" => ret.err = "waitForBlockStart"
              /\ ret.outcome = "return" => recording

----
(* Properties of sample, wait_for_event and set_eye_used *)

\* C7: sample() and the wait_for_* operations called while recording is
\* false raise the not-recording error with no device call made (no
\* eyeAvailable, no getNewestSample, no getNextData) and leave eye_used and
\* recording as they were.
C7_NotRecordingRaisesFirst ==
    [][(/\ pc = "idle" /\ ~recording
        /\ op' \in {"sample"} \cup WaitOps)
       => (/\ ret' = Raise("not_recording")
           /\ calls' = <<>> /\ avail' = None /\ newest' = None /\ consumed' = <<>>
           /\ eye_used' = eye_used /\ recording' = recording
           /\ pc' = "idle")]_vars

\* sample() refused with the eye still unresolved
C7_Witness ==
    /\ op = "sample" /\ ret = Raise("not_recording")
    /\ eye_used = None /\ calls = <<>>

\* C8: a sample() that has polled the device does not fail; when the newest
\* sample carries data for the selected eye it returns that eye's gaze and
\* never the other eye's, and when there is no newest sample, or none for the
\* selected eye, it still comes back to the caller without an error.
C8_SampleNeverFailsAfterPoll ==
    (op = "sample" /\ pc = "idle" /\ newest # None) =>
        /\ ret.outcome = "return"
        /\ (newest[1].present /\ eye_used = Some(right_eye) /\ newest[1].isRight)
              => ret.val = newest[1].right
        /\ (newest[1].present /\ eye_used = Some(left_eye) /\ newest[1].isLeft)
              => ret.val = newest[1].left
        /\ (newest[1].present /\ newest[1].left # newest[1].right)
              => ret.val # (IF eye_used = Some(right_eye) THEN newest[1].left
                                                          ELSE newest[1].right)

WaitOp == op \in WaitOps

\* C9: wait_for_event fetches the events in the order the device delivers
\* them; every event fetched before the last one has another kind than the
\* requested one; the operation returns only after fetching an event of the
\* requested kind, and what it returns is the timestamp and position(s) of
\* that event.
C9_ReturnsFirstMatch ==
    WaitOp =>
        /\ \A j \in 1..Len(consumed) : consumed[j].time = j
        /\ \A j \in 1..Len(feed) : feed[j].time = Len(consumed) + j
        /\ \A j \in 1..(Len(consumed) - 1) : consumed[j].kind # event
        /\ (pc = "wait" /\ consumed # <<>>) => d = Last(consumed).kind
        /\ ret.outcome = "return" =>
              /\ consumed # <<>>
              /\ Last(consumed).kind = event
              /\ event = KindOf(op)
              /\ ret.val[1] = Last(consumed).time
              /\ Len(ret.val) > 1 => ret.val[2] = Last(consumed).start
              /\ Len(ret.val) > 2 => ret.val[3] = Last(consumed).end
              /\ Len(ret.val) = (IF op \in {"wait_for_blink_start", "wait_for_blink_end"}
                                 THEN 1
                                 ELSE IF op \in {"wait_for_saccade_end",
                                                 "wait_for_fixation_end"}
                                 THEN 3 ELSE 2)

\* wait_for_fixation_start returned the second event after discarding the first
C9_Witness ==
    /\ op = "wait_for_fixation_start" /\ pc = "idle" /\ ret.outcome = "return"
    /\ Len(consumed) = 2 /\ consumed[1].kind # "STARTFIX"

HasLog(cl, side) ==
    \E j \in 1..Len(cl) :
        /\ cl[j] = "eyeAvailable"
        /\ j < Len(cl)
        /\ cl[j + 1] = (IF side = "right" THEN "sendMessage(var eye_used right)"
                                          ELSE "sendMessage(var eye_used left)")

\* C10: after an eyeAvailable() query in set_eye_used, an answer of right_eye
\* leaves eye_used = right_eye, an answer of left_eye or binocular leaves
\* eye_used = left_eye, and the variable eye_used is logged as "right",
\* respectively "left"; any other answer raises the eye error and logs
\* nothing.
C10_EyeMapping ==
    avail # None =>
        /\ Count(calls, "eyeAvailable") = 1
        /\ avail[1] = right_eye =>
              /\ eye_used = Some(right_eye)
              /\ HasLog(calls, "right") /\ ~HasLog(calls, "left")
              /\ ret.err # "eye"
        /\ avail[1] \in {left_eye, binocular} =>
              /\ eye_used = Some(left_eye)
              /\ HasLog(calls, "left") /\ ~HasLog(calls, "right")
              /\ ret.err # "eye"
        /\ avail[1] \notin {right_eye, left_eye, binocular} =>
              /\ pc = "idle" /\ ret = Raise("eye")
              /\ ~HasLog(calls, "left") /\ ~HasLog(calls, "right")
              /\ Last(calls) = "eyeAvailable"

\* a binocular answer resolved to the left eye
C10_Witness ==
    /\ op = "set_eye_used" /\ avail = Some(binocular)
    /\ eye_used = Some(left_eye) /\ ret.outcome = "return"

----
(* Operations that are refused while recording *)

\* C12: calibrate(), drift_correction() (operator- or fixation-triggered) and
\* fix_triggered_drift_correction() called while recording is true raise the
\* sequencing error before any device command is sent, and leave recording,
\* eye_used, cal_beep and cal_target_size as they were.
C12_RefusedWhileRecording ==
    [][(pc = "idle" /\ recording
        /\ op' \in {"calibrate", "drift_correction", "fix_triggered_drift_correction"})
       => /\ ret' = Raise("sequencing")
          /\ calls' = <<>>
          /\ pc' = "idle"
          /\ UNCHANGED <<recording, eye_used, cal_beep, cal_target_size>>]_vars

C12_Witness ==
    /\ op = "calibrate" /\ recording /\ ret = Raise("sequencing") /\ calls = <<>>
    /\ cal_beep = FALSE /\ eye_used = Some(left_eye)

----
(* Operator-triggered drift correction *)

\* C13 as stated: operator-triggered drift_correction on a session that is
\* not recording always returns to the caller (False on code 27 or on a
\* device failure, True otherwise) after exactly one doDriftCorrect call.
C13_NeverRaises ==
    (op = "drift_correction" /\ ~recording)
    => /\ ret.outcome = "return"
       /\ Count(calls, "doDriftCorrect") = 1

\* C13, amended: operator-triggered drift_correction on a session that is not
\* recording raises without calling doDriftCorrect when the Link is not
\* connected; on a connected Link it calls doDriftCorrect exactly once and
\* returns False when that call returns 27 or raises, True for any other
\* code; recording stays false.
C13_SoftFailureOnceConnected ==
    [][(pc = "idle" /\ ~recording /\ op' = "drift_correction")
       => /\ ~recording'
          /\ pc' = "idle"
          /\ \/ /\ calls' = <<"isConnected">>
                /\ ret' = Raise("not connected")
             \/ /\ calls' = <<"isConnected", "doDriftCorrect">>
                /\ ret'.outcome = "return"
                /\ ret'.val = (drift_error' # None /\ drift_error' # Some(27))]_vars

C13_Witness ==
    /\ op = "drift_correction" /\ ~recording
    /\ calls = <<"isConnected", "doDriftCorrect">>
    /\ drift_error = None /\ ret = Return(FALSE)

----
(* close and stop_recording *)

\* C14: close() makes its device calls in the order stop recording, close
\* data file, transfer data file, close Link; the stop calls are made
\* exactly when recording was true at the call, and recording is false after.
C14_CloseOrder ==
    [][(pc = "idle" /\ op' = "close")
       => /\ ~recording'
          /\ calls' = (IF recording THEN <<"endRealTimeMode", "setOfflineMode">>
                                    ELSE <<>>)
                      \o <<"closeDataFile", "receiveDataFile", "close">>]_vars

C14_Witness ==
    /\ op = "close" /\ pc = "closed" /\ ~recording
    /\ calls = <<"endRealTimeMode", "setOfflineMode",
                 "closeDataFile", "receiveDataFile", "close">>

\* the session state: the attributes of the object
session == <<recording, eye_used, cal_beep, cal_target_size, data_file>>

\* C15: stop_recording() leaves recording false and eye_used unchanged from
\* any state, and a second call right after a first one leaves the session
\* state as the first call left it.
C15_StopIdempotent ==
    [][(pc = "idle" /\ op' = "stop_recording")
       => /\ ~recording'
          /\ eye_used' = eye_used
          /\ op = "stop_recording" => UNCHANGED session]_vars

C15_Witness ==
    /\ op = "stop_recording" /\ ~recording /\ eye_used = Some(right_eye)
    /\ cal_beep = FALSE

----
(* The confirmation step and the buffer of fix_triggered_drift_correction *)

\* the last n calls of the log
LastCalls(n) == SubSeq(calls, Len(calls) - n + 1, Len(calls))

\* C18: for min_samples >= 1 fix_triggered_drift_correction returns True only
\* when the buffer held exactly min_samples entries, the confirmation key
\* press was sent and the calibration-result query right after it returned 0;
\* applyDriftCorrect is then called exactly once, after that query.  When the
\* query returns non-zero or raises, the buffer is emptied, applyDriftCorrect
\* is not called and the loop goes on polling, however many queries have
\* failed before.
C18_TrueOnlyAfterZeroResult ==
    [][/\ (pc = "ftdc" /\ pc' = "idle" /\ min_samples >= 1
           /\ ret'.outcome = "return" /\ ret'.val = TRUE)
          => /\ Len(lx) = min_samples
             /\ lx' = lx
             /\ result = Some(0)
             /\ Len(calls) >= 2
             /\ LastCalls(2) = <<"sendKeybutton", "getCalibrationResult">>
             /\ calls' = Append(calls, "applyDriftCorrect")
             /\ Count(calls', "applyDriftCorrect") = 1
       /\ (pc = "ftdc" /\ calls' # calls /\ Last(calls') = "getCalibrationResult"
           /\ result' # Some(0))
          => /\ lx' = <<>> /\ ly' = <<>>
             /\ pc' = "ftdc"
             /\ ret' = NoRet
             /\ recording'
             /\ Count(calls', "applyDriftCorrect") = 0]_vars

C18_Witness ==
    /\ Ftdc /\ pc = "idle" /\ min_samples >= 1
    /\ ret.outcome = "return" /\ ret.val = TRUE
    /\ Count(calls, "getCalibrationResult") >= 3
    /\ Count(calls, "applyDriftCorrect") = 1

\* C20: throughout the loop of fix_triggered_drift_correction lx and ly have
\* the same length, between 0 and min_samples; a sample is appended only if
\* it differs from the last accepted one; two consecutive buffered samples
\* are distinct and differ by at most reset_threshold on each axis.
C20_BufferShape ==
    [][Ftdc'
       => /\ Len(lx') = Len(ly')
          /\ Len(lx') <= min_samples'
          /\ \A j \in 1..(Len(lx') - 1) :
                /\ lx'[j] # lx'[j + 1] \/ ly'[j] # ly'[j + 1]
                /\ Abs(lx'[j] - lx'[j + 1]) <= reset_threshold'
                /\ Abs(ly'[j] - ly'[j + 1]) <= reset_threshold'
          /\ (pc = "ftdc" /\ Len(lx') > Len(lx))
             => /\ lx' = Append(lx, xy'[1]) /\ ly' = Append(ly, xy'[2])
                /\ lx = <<>> \/ xy' # <<Last(lx), Last(ly)>>]_vars

C20_Witness ==
    /\ Ftdc /\ pc = "ftdc" /\ Len(lx) = 3 /\ Len(ly) = 3
    /\ polls > 3 /\ min_samples = DefaultMinSamples

----
(* The eye selection over a session *)

Resolved == eye_used \in {Some(left_eye), Some(right_eye)}

\* C17: the eye is resolved by the first sample() or wait_for_* call made
\* while recording with no eye selected; once it is Left or Right, no later
\* sample, wait, stop_recording, start_recording, calibrate, drift-correction
\* or close step changes it or asks the device for the available eye again.
C17_EyeResolvedOnce ==
    [][/\ (Resolved /\ op' # "set_eye_used")
          => /\ eye_used' = eye_used
             /\ Count(calls', "eyeAvailable")
                  = (IF pc = "idle" THEN 0 ELSE Count(calls, "eyeAvailable"))
       /\ (pc = "idle" /\ recording /\ eye_used = None
           /\ op' \in {"sample"} \cup WaitOps)
          => /\ calls' # <<>> /\ Head(calls') = "eyeAvailable"
             /\ Count(calls', "eyeAvailable") = 1
             /\ avail' # None
             /\ eye_used' # None
             /\ avail'[1] \in {left_eye, right_eye, binocular} => Resolved']_vars

C17_Witness ==
    /\ Resolved /\ op \in WaitOps /\ pc = "idle" /\ ret.outcome = "return"
    /\ avail = None /\ Count(calls, "eyeAvailable") = 0
    /\ Count(calls, "getNextData") = 2

----
(* What max_dev and the target position do to the outcome *)

----
(* The dummy tracker against the real one *)

\* the number of components of what the real operation w returns: the
\* timestamp, the start position, the end position
RealShape(w) == Len(Project(w, EventItem(KindOf(w), 0)))

\* C16: each of the six wait operations of the dummy returns a value of the
\* shape the real operation returns (timestamp and start position; also the
\* end position for saccade end and fixation end; the timestamp alone for
\* blink start and blink end), and the dummy's drift_correction,
\* fix_triggered_drift_correction and sample return True, True and (0, 0).
C16_DummyMatchesReal ==
    /\ ret.outcome = "return"
    /\ op \in WaitOps => Len(ret.val) = RealShape(op)
    /\ op \in DriftOps => ret.val = TRUE
    /\ op = "sample" => ret.val = <<0, 0>>

----
(* The data-file name *)

\* a file name of n >= 1 letters, a dot and m letters: its stem is the n
\* letters and its extension the dot with the m letters
PlainName(n, m) == Chars("a", n) \o <<".">> \o Chars("x", m)

\* C11: a data-file name whose stem has 8 characters and whose extension
\* (counted as the code counts it, the dot included) has 4 characters passes
\* the constructor's name check; a stem of 9 characters or an extension of 5
\* characters is rejected with the configuration error, before the Link is
\* created and before any device call.
C11_NameLengthCheck ==
    [][op' = "__init__" /\ pc \in {"none", "closed"}
       => /\ arg' = PlainName(8, 3)
             => /\ ret' # Raise("config")
                /\ calls' # <<>>
          /\ (\E n \in 1..9, m \in 0..4 :
                 arg' = PlainName(n, m) /\ (n = 9 \/ m + 1 = 5))
             => /\ ret' = Raise("config")
                /\ calls' = <<>>
                /\ eyelink' = eyelink
                /\ pc' = pc]_vars

C11_Witness ==
    /\ op = "__init__" /\ pc = "idle" /\ ret = Return(None)
    /\ arg = PlainName(8, 3) /\ data_file = arg
    /\ Head(calls) = "EyeLink" /\ eyelink # None

----
(* The recording flag after a failed start_recording *)

\* C24: whenever start_recording raises, recording is left true; while it is
\* true a calibrate or drift-correction call raises the sequencing error, a
\* sample() call gets past the recording check, and only stop_recording or
\* close makes a call end with it false.
C24_FailedStartLeavesRecording ==
    [][/\ (Starting' /\ pc' = "idle" /\ ret'.outcome = "raise") => recording'
       /\ (pc = "idle" /\ recording)
          => /\ op' \in {"calibrate", "drift_correction",
                         "fix_triggered_drift_correction"}
                => ret' = Raise("sequencing")
             /\ op' = "sample" => ret'.err # "not_recording"
             /\ op' \notin {"stop_recording", "close"} => recording']_vars

C24_Witness ==
    /\ Starting /\ pc = "idle" /\ ret = Raise("startRecording") /\ recording
    /\ Count(calls, "startRecording") > MAX_TRY

----
(* The eye selection after a failed resolution *)

\* C25: eye_used only ever holds None, left_eye or right_eye; when the device
\* answers the eye query with neither right, left nor binocular, eye_used
\* stays None, so that the next sample() or wait asks the device again.
C25_FailedResolutionStaysUnresolved ==
    /\ eye_used \in {None, Some(left_eye), Some(right_eye)}
    /\ (avail # None /\ avail[1] \notin {right_eye, left_eye, binocular})
       => eye_used = None

----
(* Commands and the connection *)

\* the configuration commands of the constructor
ConfigCommands ==
    {"sendCommand(screen_pixel_coords)", "sendCommand(select_parser_configuration)",
     "sendCommand(scene_camera_gazemap)", "sendCommand(file_event_filter)",
     "sendCommand(file_sample_data)", "sendCommand(file_sample_data HTARGET)",
     "sendCommand(link_event_filter)", "sendCommand(link_sample_data)",
     "sendCommand(link_sample_data HTARGET)", "sendCommand(button_function)"}

\* C22: no command reaches the device unless the session is connected: in
\* the constructor the connection check comes before every configuration
\* command, and send_command, log, log_var and status_msg make no device
\* call on a Link that is not connected.
C22_NoCommandUnlessConnected ==
    /\ op = "__init__"
       => \A j \in 1..Len(calls) :
             calls[j] \in ConfigCommands
             => \E k \in 1..(j - 1) : calls[k] = "isConnected"
    /\ op \in PassOps
       => \A j \in 1..Len(calls) :
             calls[j] \notin {"sendCommand:down", "sendMessage:down"}

----
(* One Link, one session *)

\* C23: over any sequence of constructions and close() calls the Link and
\* its graphics environment are created at most once, and at most one session
\* is constructed and not yet closed at any time: a construction while a
\* session is open is refused.
C23_AtMostOneActiveSession ==
    /\ active <= 1
    /\ (op = "__init__" /\ ret.outcome = "return") => active = 1

----
(* The state of the calibration display *)

\* C21 as stated: the display's state starts Idle and changes only on key
\* input: Enter, 'q' and Escape set it to Idle, 'c' to Calibration, 'v' to
\* Validation, and every other key leaves it unchanged while a keycode is
\* still passed to the device.
C21_EscapeSetsIdle ==
    [][/\ op = "__init__" => state = "None"
       /\ op' # "get_input_key" => state' = state
       /\ op' = "get_input_key"
          => /\ state' = CASE key' \in {"return", "q", "escape"} -> "None"
                           [] key' = "c" -> "calibration"
                           [] key' = "v" -> "validation"
                           [] OTHER -> state
             /\ key' \in {"space", "a", "up", "down", "left", "right", "x"}
                => ret'.val # None]_vars

\* C21, amended: the display's state starts Idle and changes only in
\* get_input_key: Enter and 'q' (passed on as the Escape keycode) set it to
\* Idle, 'c' to Calibration, 'v' to Validation, and every other key, the
\* Escape key included, leaves it unchanged; a keycode is passed for every
\* key the keyboard delivers (0 for a key that is not named), and nothing is
\* passed when the keyboard delivers no key or raises.
C21_StateFollowsKeys ==
    [][/\ op = "__init__" => state = "None"
       /\ op' # "get_input_key" => state' = state
       /\ op' = "get_input_key"
          => LET raised == calls' = <<"get_key:raise">>
             IN  /\ state' = CASE raised -> state
                               [] key' \in {"return", "q"} -> "None"
                               [] key' = "c" -> "calibration"
                               [] key' = "v" -> "validation"
                               [] OTHER -> state
                 /\ ret' = IF raised \/ key' = "none"
                           THEN Return(None)
                           ELSE Return(<<KeyCode(key')>>)
                 /\ (~raised /\ key' \in {"escape", "x"}) => ret' = Return(<<"0">>)
                 /\ key' = "q" => ret' = Return(<<"ESC_KEY">>)]_vars

C21_Witness ==
    /\ op = "get_input_key"
    /\ key = "escape"
    /\ state = "calibration"
    /\ ret = Return(<<"0">>)
    /\ shown = "Success! | Press 'v' to validate"

====
